---- MODULE Spec2Model ----
(***************************************************************************)
(* Model of the adjacency-learning tile generator: Matrix (row-major grid),*)
(* MatrixTransformer (element <-> flag table) and MatrixTrainer (x / y /   *)
(* alias relations, train, ally, dataset / load, generate with its query   *)
(* cache).  Two trainer objects are modelled so that statements relating   *)
(* two trainers (determinism, dataset round trip) can be checked.          *)
(***************************************************************************)
EXTENDS Integers, Sequences, FiniteSets, TLC

(***************************************************************************)
(* Bounds of the model.                                                    *)
(***************************************************************************)
\* train / ally / load calls one trainer receives
MaxOps == 2

Trainers == {1, 2}
\* the caller's ambient fill; it is not an element of any training grid
Ambient == "_"
\* value of a JavaScript variable that holds undefined
Undefined == -1

(***************************************************************************)
(* JavaScript Map: entries in insertion order, keys unique.                *)
(***************************************************************************)
MapHas(m, k) == \E i \in 1..Len(m) : m[i][1] = k

MapGet(m, k) == m[CHOOSE i \in 1..Len(m) : m[i][1] = k][2]

MapSet(m, k, v) ==
  IF MapHas(m, k)
  THEN [i \in 1..Len(m) |-> IF m[i][1] = k THEN <<k, v>> ELSE m[i]]
  ELSE Append(m, <<k, v>>)

RECURSIVE MapFromEntries(_)
MapFromEntries(es) ==
  IF es = <<>> THEN <<>>
  ELSE LET front == SubSeq(es, 1, Len(es) - 1)
           last  == es[Len(es)]
       IN MapSet(MapFromEntries(front), last[1], last[2])

ArrayFrom(m) == [i \in 1..Len(m) |-> <<m[i][1], m[i][2]>>]

Range(s) == {s[i] : i \in 1..Len(s)}

Includes(s, v) == \E i \in 1..Len(s) : s[i] = v

\* lodash uniq: the first occurrence of every value, in order
RECURSIVE Uniq(_)
Uniq(s) ==
  IF s = <<>> THEN <<>>
  ELSE LET front == Uniq(SubSeq(s, 1, Len(s) - 1))
           last  == s[Len(s)]
       IN IF Includes(front, last) THEN front ELSE Append(front, last)

RECURSIVE Concat(_)
Concat(ss) == IF ss = <<>> THEN <<>> ELSE Head(ss) \o Concat(Tail(ss))

(***************************************************************************)
(* Matrix: [row, col, elements]; elements[i + 1] is the code's elements[i].*)
(***************************************************************************)
Matrix(row, col, elements) == [row |-> row, col |-> col, elements |-> elements]

MatrixOk(row, col, elements) == row * col = Len(elements)

OutOfRange(index, max) == index < 0 \/ index > max

GetRowIndexOk(m, elOffset) == ~OutOfRange(elOffset, Len(m.elements) - 1)

GetRowIndex(m, elOffset) == elOffset \div m.col

GetColIndexOk(m, elOffset) == ~OutOfRange(elOffset, Len(m.elements) - 1)

\* variant: the remainder is taken by the row count
GetColIndexByRow(m, elOffset) == elOffset % m.row

GetColIndex(m, elOffset) == elOffset % m.col

GetIndex(m, rowIndex, colIndex) == (rowIndex * m.col) + colIndex

GetElementOk(m, rowIndex, colIndex) ==
  /\ ~OutOfRange(rowIndex, m.row - 1)
  /\ ~OutOfRange(colIndex, m.col - 1)

GetElement(m, rowIndex, colIndex) == m.elements[GetIndex(m, rowIndex, colIndex) + 1]

\* getIndex throws ERR_EXCEED_RANGE unless both coordinates are in range
GetIndexOk(m, rowIndex, colIndex) ==
  /\ ~OutOfRange(rowIndex, m.row - 1)
  /\ ~OutOfRange(colIndex, m.col - 1)

\* variant: the element is appended instead of stored at its index
SetElementPush(m, rowIndex, colIndex, element) ==
  [m EXCEPT !.elements = Append(m.elements, element)]

\* setElement: this.elements[this.getIndex(rowIndex, colIndex)] = element
SetElement(m, rowIndex, colIndex, element) ==
  [m EXCEPT !.elements[GetIndex(m, rowIndex, colIndex) + 1] = element]

\* clear: this.elements.fill(fill)
Clear(m, fill) == [m EXCEPT !.elements = [i \in 1..Len(m.elements) |-> fill]]

\* a.row === b.row && a.col === b.row
SizeMatch(a, b) == a.row = b.row /\ a.col = b.row

\* what av + undefined and av - undefined give
NaN == -1000

\* b.elements[i], undefined past the end of the array
ElementOrNaN(b, i) == IF i <= Len(b.elements) THEN b.elements[i] ELSE NaN

Plus(av, bv) == IF bv = NaN THEN NaN ELSE av + bv

Minus(av, bv) == IF bv = NaN THEN NaN ELSE av - bv

\* Add and Sub after the SizeMatch test: new Matrix(a.row, a.col, a.elements.map(...))
Add(a, b) ==
  Matrix(a.row, a.col, [i \in 1..Len(a.elements) |-> Plus(a.elements[i], ElementOrNaN(b, i))])

Sub(a, b) ==
  Matrix(a.row, a.col, [i \in 1..Len(a.elements) |-> Minus(a.elements[i], ElementOrNaN(b, i))])

\* the % of the code: the sign of the result is the sign of the dividend
Rem(a, n) == IF a >= 0 THEN a % n ELSE 0 - ((0 - a) % n)

\* GetLocalMatrix throws unless !(row%2) || !(col%2) || row < 0 || col < 0 is false
LocalSizeOk(row, col) == ~(Rem(row, 2) = 0 \/ Rem(col, 2) = 0 \/ row < 0 \/ col < 0)

\* the inner loop of GetLocalMatrix: for (let x = 0; x < col; x++, i++)
RECURSIVE LocalCols(_, _, _, _, _, _, _)
LocalCols(source, rowOffset, startColIndex, col, x, i, elements) ==
  IF x >= col THEN elements
  ELSE LocalCols(source, rowOffset, startColIndex, col, x + 1, i + 1,
         IF OutOfRange(startColIndex + x, source.col - 1)
         THEN elements
         ELSE [elements EXCEPT ![i + 1] = GetElement(source, rowOffset, startColIndex + x)])

\* variant: a row outside the source does not advance i
RECURSIVE LocalRowsNoSkip(_, _, _, _, _, _, _, _)
LocalRowsNoSkip(source, startRowIndex, startColIndex, row, col, y, i, elements) ==
  IF y >= row THEN elements
  ELSE IF OutOfRange(startRowIndex + y, source.row - 1)
       THEN LocalRowsNoSkip(source, startRowIndex, startColIndex, row, col, y + 1, i, elements)
       ELSE LocalRowsNoSkip(source, startRowIndex, startColIndex, row, col, y + 1, i + col,
              LocalCols(source, startRowIndex + y, startColIndex, col, 0, i, elements))

\* the outer loop: for (let y = 0, i = 0; y < row; y++), with i += col for a
\* row outside the source
RECURSIVE LocalRows(_, _, _, _, _, _, _, _)
LocalRows(source, startRowIndex, startColIndex, row, col, y, i, elements) ==
  IF y >= row THEN elements
  ELSE IF OutOfRange(startRowIndex + y, source.row - 1)
       THEN LocalRows(source, startRowIndex, startColIndex, row, col, y + 1, i + col, elements)
       ELSE LocalRows(source, startRowIndex, startColIndex, row, col, y + 1, i + col,
              LocalCols(source, startRowIndex + y, startColIndex, col, 0, i, elements))

\* GetLocalMatrix after the size test; (row-1)/2 is whole for an odd row
GetLocalMatrix(source, rowIndex, colIndex, row, col, fill) ==
  Matrix(row, col,
         LocalRows(source, rowIndex - ((row - 1) \div 2), colIndex - ((col - 1) \div 2),
                   row, col, 0, 0, [i \in 1..(row * col) |-> fill]))

(***************************************************************************)
(* MatrixTransformer: the flag table, a Map from element to flag.          *)
(***************************************************************************)
\* the new key takes flag 1 and every registered key the next flag
EnsureFlagFirst(fl, key) ==
  IF ~MapHas(fl, key)
  THEN <<<<key, 1>>>> \o [i \in 1..Len(fl) |-> <<fl[i][1], fl[i][2] + 1>>]
  ELSE fl

\* variant: a new key gets the size of the table before it is added
EnsureFlagSize(fl, key) ==
  IF ~MapHas(fl, key) THEN MapSet(fl, key, Len(fl)) ELSE fl

EnsureFlagTable(fl, key) ==
  IF ~MapHas(fl, key) THEN MapSet(fl, key, Len(fl) + 1) ELSE fl

\* ensureFlag for every key of a list, in order
RECURSIVE EnsureFlags(_, _)
EnsureFlags(fl, keys) ==
  IF keys = <<>> THEN fl ELSE EnsureFlags(EnsureFlagTable(fl, Head(keys)), Tail(keys))

GetFlag(fl, key) == MapGet(fl, key)

HasKey(fl, flag) == \E i \in 1..Len(fl) : fl[i][2] = flag

GetKey(fl, flag) == fl[CHOOSE i \in 1..Len(fl) :
                          /\ fl[i][2] = flag
                          /\ \A j \in 1..(i - 1) : fl[j][2] # flag][1]

\* restore writes into the array it was given, one position at a time
Restore(fl, matrix, nonExistsFill) ==
  Matrix(matrix.row, matrix.col,
         [i \in 1..Len(matrix.elements) |->
            IF ~HasKey(fl, matrix.elements[i])
            THEN nonExistsFill
            ELSE GetKey(fl, matrix.elements[i])])

\* variant: a key that has no flag is embedded as 0 and is not registered
EmbeddingLookup(fl, matrix) ==
  [flags |-> fl,
   mat |-> Matrix(matrix.row, matrix.col,
                  [i \in 1..Len(matrix.elements) |->
                     IF MapHas(fl, matrix.elements[i]) THEN GetFlag(fl, matrix.elements[i])
                     ELSE 0])]

\* embedding: mat.elements[i] = this.ensureFlag(matrix.elements[i]), for i
\* from 0 on; flags is the table after the call, mat the matrix returned
Embedding(fl, matrix) ==
  [flags |-> EnsureFlags(fl, matrix.elements),
   mat |-> Matrix(matrix.row, matrix.col,
                  [i \in 1..Len(matrix.elements) |->
                     GetFlag(EnsureFlags(fl, SubSeq(matrix.elements, 1, i)),
                             matrix.elements[i])])]

(***************************************************************************)
(* Relationship: [id, relations]; id is the identity of the object (the    *)
(* query cache is keyed by it), relations the Map from a node to the list  *)
(* of nodes it points to.                                                  *)
(***************************************************************************)
NewRelationship(id, dataset) == [id |-> id, relations |-> MapFromEntries(dataset)]

RelGet(rel, node) == IF MapHas(rel.relations, node) THEN MapGet(rel.relations, node) ELSE <<>>

\* addEdge: the store is a multi-relation, an edge added twice is stored twice
RelTo(rel, source, target) ==
  [rel EXCEPT !.relations = MapSet(rel.relations, source, Append(RelGet(rel, source), target))]

RECURSIVE RelToAll(_, _, _)
RelToAll(rel, source, targets) ==
  IF targets = <<>>
  THEN [rel EXCEPT !.relations = MapSet(rel.relations, source, RelGet(rel, source))]
  ELSE RelToAll(RelTo(rel, source, Head(targets)), source, Tail(targets))

RECURSIVE RelMerge(_, _)
RelMerge(rel, dataset) ==
  IF dataset = <<>> THEN rel
  ELSE RelMerge(RelToAll(rel, Head(dataset)[1], Head(dataset)[2]), Tail(dataset))

RelDataset(rel) == ArrayFrom(rel.relations)

(***************************************************************************)
(* Seeded randomness.  The hash behind FixedRandom and the generator       *)
(* behind shuffle are fixed tables from (seed, draw) to twelfths in [0,1). *)
(***************************************************************************)
\* the draw-th number of the stream seeded with seed, in twelfths
RngNum(seed, draw) == ((seed + 1) * (7 * draw + 3) + seed) % 12

\* shuffle: repeatedly draws r = floor(rng() * keys.length) and moves
\* arr[keys[r]] to the result; the input array is left as it was
RECURSIVE ShuffleFrom(_, _, _, _)
ShuffleFrom(arr, keys, seed, draw) ==
  IF keys = <<>> THEN <<>>
  ELSE LET r == (RngNum(seed, draw) * Len(keys)) \div 12
           rest == SubSeq(keys, 1, r) \o SubSeq(keys, r + 2, Len(keys))
       IN <<arr[keys[r + 1]]>> \o ShuffleFrom(arr, rest, seed, draw + 1)

Shuffle(arr, seed) == ShuffleFrom(arr, [i \in 1..Len(arr) |-> i], seed, 0)

\* FixedRandom(seed), in twelfths
FixedRandomNum(seed) == (5 * seed + 1) % 12

\* variant: the index is rounded up instead of down
SampleCeil(array, seed) ==
  LET index == (Len(array) * FixedRandomNum(seed) + 11) \div 12
  IN IF index < Len(array) THEN array[index + 1] ELSE Undefined

Sample(array, seed) ==
  LET index == (Len(array) * FixedRandomNum(seed)) \div 12
  IN IF index < Len(array) THEN array[index + 1] ELSE Undefined

(***************************************************************************)
(* MatrixTrainer queries.  A trainer is [flags, xn, yn, sim].              *)
(***************************************************************************)
Aliases(tr, element) == <<element>> \o RelGet(tr.sim, element)

\* the stored list as it is, repetitions included
NextElementsStored(rel, element) == RelGet(rel, element)

NextElements(rel, element) == Uniq(RelGet(rel, element))

\* variant: the neighbours are not expanded to their aliases
NextAliasesDirect(tr, rel, element) ==
  LET als == Aliases(tr, element)
  IN Uniq(Concat([i \in 1..Len(als) |-> NextElements(rel, als[i])]))

NextAliases(tr, rel, element) ==
  LET als == Aliases(tr, element)
      children == Concat([i \in 1..Len(als) |-> NextElements(rel, als[i])])
  IN Uniq(Concat([i \in 1..Len(children) |-> Aliases(tr, children[i])]))

Dataset(tr) ==
  <<ArrayFrom(tr.flags), RelDataset(tr.xn), RelDataset(tr.yn), RelDataset(tr.sim)>>

\* the trainer a constructor call returns
FreshTrainer ==
  [flags |-> <<>>,
   xn  |-> NewRelationship(1, <<>>),
   yn  |-> NewRelationship(2, <<>>),
   sim |-> NewRelationship(3, <<>>)]

\* load replaces the flag table and creates three new relationship objects
LoadTrainer(tr, dataset) ==
  [flags |-> MapFromEntries(dataset[1]),
   xn  |-> NewRelationship(tr.sim.id + 1, dataset[2]),
   yn  |-> NewRelationship(tr.sim.id + 2, dataset[3]),
   sim |-> NewRelationship(tr.sim.id + 3, dataset[4])]

\* ally: every tuple's key, then its values, get flags; the flag tuples are merged
RECURSIVE AllyFlags(_, _)
AllyFlags(fl, aliases) ==
  IF aliases = <<>> THEN fl
  ELSE AllyFlags(EnsureFlags(EnsureFlagTable(fl, Head(aliases)[1]), Head(aliases)[2]),
                 Tail(aliases))

AllyTrainer(tr, aliases) ==
  LET fl == AllyFlags(tr.flags, aliases)
      dataset == [i \in 1..Len(aliases) |->
                    <<GetFlag(fl, aliases[i][1]),
                      [j \in 1..Len(aliases[i][2]) |-> GetFlag(fl, aliases[i][2][j])]>>]
  IN [tr EXCEPT !.flags = fl, !.sim = RelMerge(tr.sim, dataset)]

\* variant: the edge is recorded from the current cell to the earlier one
AddAdjacencyReversed(rel, before, element) == RelTo(rel, element, before)

\* this.__yn.to(top, element) / this.__xn.to(left, element)
AddAdjacency(rel, before, element) == RelTo(rel, before, element)

\* the body of train's forEach for the element at offset i
TrainCell(tr, matrix, i) ==
  LET rowIndex == GetRowIndex(matrix, i)
      colIndex == GetColIndex(matrix, i)
      fl1 == EnsureFlagTable(tr.flags, matrix.elements[i + 1])
      element == GetFlag(fl1, matrix.elements[i + 1])
      hasTop == ~OutOfRange(rowIndex - 1, matrix.row - 1)
      fl2 == IF hasTop
             THEN EnsureFlagTable(fl1, GetElement(matrix, rowIndex - 1, colIndex))
             ELSE fl1
      yn2 == IF hasTop
             THEN AddAdjacency(tr.yn, GetFlag(fl2, GetElement(matrix, rowIndex - 1, colIndex)), element)
             ELSE tr.yn
      hasLeft == ~OutOfRange(colIndex - 1, matrix.col - 1)
      fl3 == IF hasLeft
             THEN EnsureFlagTable(fl2, GetElement(matrix, rowIndex, colIndex - 1))
             ELSE fl2
      xn2 == IF hasLeft
             THEN AddAdjacency(tr.xn, GetFlag(fl3, GetElement(matrix, rowIndex, colIndex - 1)), element)
             ELSE tr.xn
  IN [tr EXCEPT !.flags = fl3, !.xn = xn2, !.yn = yn2]

RECURSIVE TrainFrom(_, _, _)
TrainFrom(tr, matrix, i) ==
  IF i >= Len(matrix.elements) THEN tr
  ELSE TrainFrom(TrainCell(tr, matrix, i), matrix, i + 1)

TrainTrainer(tr, matrix) == TrainFrom(tr, matrix, 0)

(***************************************************************************)
(* The query cache of UseCache.  generate takes only nextAliases from it,  *)
(* so of the three maps only the sub-alias map is ever filled.  It maps    *)
(* (relationship object, flag) to the list memoized for that pair.         *)
(***************************************************************************)
EmptyCache == <<>>

CacheKey(rel, element) == <<rel.id, element>>

\* variant: a lookup that finds a memoized list takes its first flag away
CacheNextAliasesShift(cache, tr, rel, element) ==
  IF CacheKey(rel, element) \in DOMAIN cache
  THEN [cache EXCEPT ![CacheKey(rel, element)] = IF @ = <<>> THEN @ ELSE Tail(@)]
  ELSE cache @@ (CacheKey(rel, element) :> NextAliases(tr, rel, element))

\* variant: the list is computed and stored again at every lookup
CacheNextAliasesFresh(cache, tr, rel, element) ==
  (CacheKey(rel, element) :> NextAliases(tr, rel, element)) @@ cache

\* UseCache.nextAliases: memoize on a miss, then answer from the map
CacheNextAliases(cache, tr, rel, element) ==
  IF CacheKey(rel, element) \in DOMAIN cache
  THEN cache
  ELSE cache @@ (CacheKey(rel, element) :> NextAliases(tr, rel, element))

CacheRead(cache, rel, element) == cache[CacheKey(rel, element)]

RECURSIVE CacheNextAliasesAll(_, _, _, _)
CacheNextAliasesAll(cache, tr, rel, elements) ==
  IF elements = <<>> THEN cache
  ELSE CacheNextAliasesAll(CacheNextAliases(cache, tr, rel, Head(elements)),
                           tr, rel, Tail(elements))

\* UseCache(trainer, useDefaultCache): the map the call works on
UseCache(defCache, useDefaultCache) == IF useDefaultCache THEN defCache ELSE EmptyCache

(***************************************************************************)
(* generate.  ctx = [tr, row, col, seed, mode, nodes] is fixed during the  *)
(* call; mat is the flag matrix being filled.                              *)
(***************************************************************************)
HasTop(mat, rowIndex) == ~OutOfRange(rowIndex - 1, mat.row - 1)

HasLeft(mat, colIndex) == ~OutOfRange(colIndex - 1, mat.col - 1)

\* variant: the lookahead asks for two columns to the right
LookaheadTwoColumns(mat, rowIndex, colIndex) ==
  HasTop(mat, rowIndex) /\ HasLeft(mat, colIndex + 3)

\* variant: the lookahead does not ask whether a column lies to the right
LookaheadAnyColumn(mat, rowIndex, colIndex) == HasTop(mat, rowIndex)

\* the lookahead of the candidate scan is applied under this condition
LookaheadApplies(mat, rowIndex, colIndex) == HasTop(mat, rowIndex) /\ HasLeft(mat, colIndex + 2)

\* variant: the top-and-left check is never applied
TopLeftNever(mat, rowIndex, colIndex) == FALSE

\* the top-and-left check of the candidate scan is applied under this condition
TopLeftApplies(mat, rowIndex, colIndex) == HasTop(mat, rowIndex) /\ HasLeft(mat, colIndex)

\* !element
Falsy(element) == element = Undefined \/ element = 0

\* variant: a candidate without expansions does not end the scan
UnviableNever(xAliases, yAliases) == FALSE

\* !xAliases.length || !yAliases.length: the scan of the cell ends here
\* variant: only the x expansion is tested
UnviableX(xAliases, yAliases) == xAliases = <<>>

Unviable(xAliases, yAliases) == xAliases = <<>> \/ yAliases = <<>>

\* variant: the failing cell is counted as placed
AbortScoreNext(i) == i + 1

\* quality mode, no candidate accepted at offset i: score = i
AbortScore(i) == i

\* The scan of one cell, for (const sub of subs), is ScanSubs; the steps of
\* its body follow, last step first.  acc = [element, subs, cache, passed,
\* scanned, cut, err] is what the scan has reached: the element accepted so
\* far, the pool for the next cell, the query cache, the candidates that
\* passed, the number scanned, whether the scan was ended, the error thrown.

\* if (!nConnectable.length) continue; element = sub; subs = xAliases
\* (the loop goes on: nothing ends the scan after an acceptance)
ScanAccept(ctx, mat, rowIndex, colIndex, sub, acc, xAliases, c4) ==
  IF /\ LookaheadApplies(mat, rowIndex, colIndex)
     /\ SelectSeq(CacheRead(c4, ctx.tr.yn, GetElement(mat, rowIndex - 1, colIndex + 1)),
                  LAMBDA v : Includes(xAliases, v)) = <<>>
  THEN [acc EXCEPT !.cache = c4]
  ELSE [acc EXCEPT !.cache = c4, !.element = sub, !.subs = xAliases,
                   !.passed = Append(acc.passed, sub)]

\* const nt = mat.getElement(rowIndex-1, colIndex+1); nextAliases(this.__yn, nt)
ScanLookahead(ctx, mat, rowIndex, colIndex, sub, acc, xAliases, c3) ==
  IF LookaheadApplies(mat, rowIndex, colIndex) /\ ~GetElementOk(mat, rowIndex - 1, colIndex + 1)
  THEN [acc EXCEPT !.cache = c3, !.err = "IndexOutOfRange"]
  ELSE ScanAccept(ctx, mat, rowIndex, colIndex, sub, acc, xAliases,
         IF LookaheadApplies(mat, rowIndex, colIndex)
         THEN CacheNextAliases(c3, ctx.tr, ctx.tr.yn, GetElement(mat, rowIndex - 1, colIndex + 1))
         ELSE c3)

\* if (!xConnectable || !yConnectable) continue
ScanTopLeft(ctx, mat, rowIndex, colIndex, sub, acc, xAliases, c3) ==
  IF /\ TopLeftApplies(mat, rowIndex, colIndex)
     /\ \/ ~Includes(CacheRead(c3, ctx.tr.xn, GetElement(mat, rowIndex, colIndex - 1)), sub)
        \/ ~Includes(CacheRead(c3, ctx.tr.yn, GetElement(mat, rowIndex - 1, colIndex)), sub)
  THEN [acc EXCEPT !.cache = c3]
  ELSE ScanLookahead(ctx, mat, rowIndex, colIndex, sub, acc, xAliases, c3)

\* the reads of the left and the top cell, and their nextAliases lookups
ScanViable(ctx, mat, rowIndex, colIndex, sub, acc, xAliases, c2) ==
  IF /\ TopLeftApplies(mat, rowIndex, colIndex)
     /\ ~(GetElementOk(mat, rowIndex, colIndex - 1) /\ GetElementOk(mat, rowIndex - 1, colIndex))
  THEN [acc EXCEPT !.cache = c2, !.err = "IndexOutOfRange"]
  ELSE ScanTopLeft(ctx, mat, rowIndex, colIndex, sub, acc, xAliases,
         IF TopLeftApplies(mat, rowIndex, colIndex)
         THEN CacheNextAliases(
                CacheNextAliases(c2, ctx.tr, ctx.tr.xn, GetElement(mat, rowIndex, colIndex - 1)),
                ctx.tr, ctx.tr.yn, GetElement(mat, rowIndex - 1, colIndex))
         ELSE c2)

\* if (!xAliases.length || !yAliases.length) break; then the xs / ys loops,
\* whose results are unused and whose lookups are memoized
ScanSub(ctx, mat, rowIndex, colIndex, sub, acc, c1) ==
  IF Unviable(CacheRead(c1, ctx.tr.xn, sub), CacheRead(c1, ctx.tr.yn, sub))
  THEN [acc EXCEPT !.cache = c1, !.cut = TRUE]
  ELSE ScanViable(ctx, mat, rowIndex, colIndex, sub, acc, CacheRead(c1, ctx.tr.xn, sub),
         CacheNextAliasesAll(
           CacheNextAliasesAll(c1, ctx.tr, ctx.tr.yn, CacheRead(c1, ctx.tr.xn, sub)),
           ctx.tr, ctx.tr.xn, CacheRead(c1, ctx.tr.yn, sub)))

\* for (const sub of subs), from the j-th candidate of list on:
\* xAliases = nextAliases(this.__xn, sub); yAliases = nextAliases(this.__yn, sub)
RECURSIVE ScanSubs(_, _, _, _, _, _, _)
ScanSubs(ctx, mat, rowIndex, colIndex, list, j, acc) ==
  IF j > Len(list) \/ acc.err # "none" \/ acc.cut THEN acc
  ELSE ScanSubs(ctx, mat, rowIndex, colIndex, list, j + 1,
         ScanSub(ctx, mat, rowIndex, colIndex, list[j], [acc EXCEPT !.scanned = j],
                 CacheNextAliases(CacheNextAliases(acc.cache, ctx.tr, ctx.tr.xn, list[j]),
                                  ctx.tr, ctx.tr.yn, list[j])))

\* The body of generate's loop over the cells, for the cell at offset i, is
\* GenerateCell; its steps follow, last step first.
\* g = [elements, subs, cache, score, err, halted, cells].

\* what the properties keep of the scan of one cell
CellRecord(pool, acc, rowIndex, colIndex) ==
  [pool |-> pool, passed |-> acc.passed, scanned |-> acc.scanned, cut |-> acc.cut,
   row |-> rowIndex, col |-> colIndex, element |-> acc.element, forced |-> FALSE]

\* fill: subs = nextAliases(this.__xn, element); mat.elements[i] = element
CellForced(ctx, g, i, cell, forced, cf) ==
  [g EXCEPT !.elements[i + 1] = forced, !.subs = CacheRead(cf, ctx.tr.xn, forced),
            !.cache = cf,
            !.cells = Append(g.cells, [cell EXCEPT !.element = forced, !.forced = TRUE])]

\* fill: element = MatrixTrainer.Sample(localAliases, seed)
CellFill(ctx, g, i, cell, acc, forced) ==
  CellForced(ctx, g, i, cell, forced, CacheNextAliases(acc.cache, ctx.tr, ctx.tr.xn, forced))

\* after the scan: if (!element) { quality / fill / throw }; mat.elements[i] = element
CellScanned(ctx, g, i, cell, acc) ==
  IF acc.err # "none"
    THEN [g EXCEPT !.err = acc.err, !.halted = TRUE, !.cache = acc.cache]
  ELSE IF Falsy(acc.element)
    THEN IF ctx.mode = "quality"
           THEN [g EXCEPT !.score = AbortScore(i), !.halted = TRUE, !.cache = acc.cache,
                          !.subs = acc.subs, !.cells = Append(g.cells, cell)]
         ELSE IF ctx.mode = "fill"
           THEN CellFill(ctx, g, i, cell, acc,
                         Sample(IF Len(acc.subs) > 0 THEN acc.subs ELSE ctx.nodes, ctx.seed))
         ELSE [g EXCEPT !.err = "UnknownMode", !.halted = TRUE, !.cache = acc.cache,
                        !.cells = Append(g.cells, cell)]
  ELSE [g EXCEPT !.elements[i + 1] = acc.element, !.subs = acc.subs, !.cache = acc.cache,
                 !.cells = Append(g.cells, cell)]

\* the scan's result and its record
CellScan(ctx, g, i, rowIndex, colIndex, pool, acc) ==
  CellScanned(ctx, g, i, CellRecord(pool, acc, rowIndex, colIndex), acc)

\* for (const sub of subs) over the shuffled pool
CellPool(ctx, g, i, mat, rowIndex, colIndex, c0, pool) ==
  CellScan(ctx, g, i, rowIndex, colIndex, pool,
           ScanSubs(ctx, mat, rowIndex, colIndex, pool, 1,
                    [element |-> Undefined, subs |-> pool, cache |-> c0, passed |-> <<>>,
                     scanned |-> 0, cut |-> FALSE, err |-> "none"]))

\* subs = shuffle(subs, seed), subs being the y-expansion of the first cell
\* of the row above when the cell starts a row after the first
CellSeeded(ctx, g, i, mat, rowIndex, colIndex, c0) ==
  CellPool(ctx, g, i, mat, rowIndex, colIndex, c0,
           Shuffle(IF colIndex = 0 /\ rowIndex > 0
                   THEN CacheRead(c0, ctx.tr.yn, GetElement(mat, rowIndex - 1, 0))
                   ELSE g.subs,
                   ctx.seed))

\* if (colIndex === 0) { if (rowIndex > 0) { beforeFirst = mat.getElement(rowIndex-1, 0) ... } }
CellAt(ctx, g, i, mat, rowIndex, colIndex) ==
  IF colIndex = 0 /\ rowIndex > 0 /\ ~GetElementOk(mat, rowIndex - 1, 0)
  THEN [g EXCEPT !.err = "IndexOutOfRange", !.halted = TRUE]
  ELSE CellSeeded(ctx, g, i, mat, rowIndex, colIndex,
         IF colIndex = 0 /\ rowIndex > 0
         THEN CacheNextAliases(g.cache, ctx.tr, ctx.tr.yn, GetElement(mat, rowIndex - 1, 0))
         ELSE g.cache)

\* const rowIndex = mat.getRowIndex(i); const colIndex = mat.getColIndex(i)
GenerateCell(ctx, g, i) ==
  IF ~(/\ GetRowIndexOk(Matrix(ctx.row, ctx.col, g.elements), i)
       /\ GetColIndexOk(Matrix(ctx.row, ctx.col, g.elements), i))
  THEN [g EXCEPT !.err = "IndexOutOfRange", !.halted = TRUE]
  ELSE CellAt(ctx, g, i, Matrix(ctx.row, ctx.col, g.elements),
              GetRowIndex(Matrix(ctx.row, ctx.col, g.elements), i),
              GetColIndex(Matrix(ctx.row, ctx.col, g.elements), i))

RECURSIVE GenerateFrom(_, _, _)
GenerateFrom(ctx, g, i) ==
  IF i >= ctx.row * ctx.col \/ g.halted THEN g
  ELSE GenerateFrom(ctx, GenerateCell(ctx, g, i), i + 1)

\* return { score: score / mat.size, result: this.restore(mat, ambient) }:
\* variant: restoring the result registers the ambient element as a key
GenerateAnswerRegistering(tr, defCache, row, col, ambient, useCache, g) ==
  [err |-> g.err, score |-> g.score, size |-> row * col, flagMat |-> g.elements,
   result |-> IF g.err = "none"
              THEN Restore(tr.flags, Matrix(row, col, g.elements), ambient).elements
              ELSE <<>>,
   defCache |-> IF useCache THEN g.cache ELSE defCache,
   cells |-> g.cells,
   trainer |-> [tr EXCEPT !.flags = EnsureFlagTable(@, ambient)]]

\* the answer holds the thrown error (err), the score as score / size, the
\* flag matrix before restore, the restored result, the persistent cache
\* the call leaves behind, the per-cell record and the trainer as the call
\* leaves it: generate and restore only read this.__flags and the graphs
GenerateAnswer(tr, defCache, row, col, ambient, useCache, g) ==
  [err |-> g.err, score |-> g.score, size |-> row * col, flagMat |-> g.elements,
   result |-> IF g.err = "none"
              THEN Restore(tr.flags, Matrix(row, col, g.elements), ambient).elements
              ELSE <<>>,
   defCache |-> IF useCache THEN g.cache ELSE defCache,
   cells |-> g.cells,
   trainer |-> tr]

\* mat = new Matrix(row, col, new Array(size).fill(0)); score = mat.size; subs = [...nodes]
GenerateWith(tr, defCache, row, col, ambient, seed, useCache, mode, nodes) ==
  GenerateAnswer(tr, defCache, row, col, ambient, useCache,
    GenerateFrom([tr |-> tr, row |-> row, col |-> col, seed |-> seed, mode |-> mode,
                  nodes |-> nodes],
                 [elements |-> [i \in 1..(row * col) |-> 0], subs |-> nodes,
                  cache |-> UseCache(defCache, useCache), score |-> row * col,
                  err |-> "none", halted |-> FALSE, cells |-> <<>>], 0))

\* generate(row, col, ambient, seed, {useCache, mode}) on trainer tr whose
\* persistent sub-alias cache is defCache; nodes = uniq([...this.__flags.values()])
Generate(tr, defCache, row, col, ambient, seed, useCache, mode) ==
  GenerateWith(tr, defCache, row, col, ambient, seed, useCache, mode,
               Uniq([i \in 1..Len(tr.flags) |-> tr.flags[i][2]]))

(***************************************************************************)
(* Inputs the model feeds to the trainers.                                 *)
(***************************************************************************)
GridABCD == Matrix(2, 2, <<"A", "B", "C", "D">>)
GridABCACB == Matrix(2, 3, <<"A", "B", "C", "A", "C", "B">>)
GridB    == Matrix(1, 1, <<"B">>)

TrainGrids == {GridABCD, GridABCACB}

AllyInputs == { << <<"A", <<"B">> >> >> }

\* a dataset saved earlier by another trainer, one that saw the single cell B
LoadDatasets == {Dataset(TrainTrainer(FreshTrainer, GridB))}

\* <<<<row, col>>, seed>> of the generate calls the model makes
Calls == {<<<<1, 1>>, 1>>, <<<<2, 2>>, 0>>, <<<<2, 2>>, 1>>, <<<<2, 3>>, 0>>, <<<<2, 3>>, 1>>,
          <<<<3, 3>>, 0>>, <<<<3, 1>>, 1>>}
PairCalls == {<<<<2, 2>>, 0>>, <<<<2, 2>>, 1>>}
Options == {<<TRUE, "quality">>, <<FALSE, "quality">>, <<TRUE, "fill">>, <<FALSE, "fill">>,
            <<TRUE, "bogus">>}

(***************************************************************************)
(* State.  Trainer 1 is the trainer the calls are made on.  Trainer 2 is   *)
(* the second trainer of the statements about two trainers: it stays as    *)
(* constructed until it loads the dataset of trainer 1.                    *)
(***************************************************************************)
VARIABLES
  flags,             \* flags[t]: the flag table of trainer t
  xn, yn, sim,       \* the three relationships of trainer t
  DefSubAliasCache,  \* the persistent sub-alias cache of trainer t
  ops,               \* train / ally / load calls trainer t has received
  seen,              \* history: the adjacencies trainer t was shown by train
  call,              \* <<row, col, seed>> the generate calls of this behaviour use
  out,               \* the last generate call and its answer
  grid,              \* the Matrix object the Matrix calls are made on
  tflags,            \* the flag table of the MatrixTransformer the calls are made on
  ret                \* the last Matrix or MatrixTransformer call and what it returned

tvars == <<flags, xn, yn, sim, DefSubAliasCache, ops, seen, call, out>>

vars == <<flags, xn, yn, sim, DefSubAliasCache, ops, seen, call, out, grid, tflags, ret>>

Trainer(t) == [flags |-> flags[t], xn |-> xn[t], yn |-> yn[t], sim |-> sim[t]]

NoOut == [t |-> 0]

\* the pairs (left, right) and (above, below) of elements a grid shows
SeenX(m) == {<<GetElement(m, rc[1], rc[2]), GetElement(m, rc[1], rc[2] + 1)>> :
               rc \in (0..(m.row - 1)) \X (0..(m.col - 2))}

SeenY(m) == {<<GetElement(m, rc[1], rc[2]), GetElement(m, rc[1] + 1, rc[2])>> :
               rc \in (0..(m.row - 2)) \X (0..(m.col - 1))}

NotSeen == [pure |-> FALSE, x |-> {}, y |-> {}, cells |-> {}]

InitTrainers ==
  /\ flags = [t \in Trainers |-> FreshTrainer.flags]
  /\ xn = [t \in Trainers |-> FreshTrainer.xn]
  /\ yn = [t \in Trainers |-> FreshTrainer.yn]
  /\ sim = [t \in Trainers |-> FreshTrainer.sim]
  /\ DefSubAliasCache = [t \in Trainers |-> EmptyCache]
  /\ ops = [t \in Trainers |-> 0]
  /\ seen = [t \in Trainers |-> [pure |-> TRUE, x |-> {}, y |-> {}, cells |-> {}]]
  /\ out = NoOut

NoRet == [op |-> "none"]

\* a 1 x 1 Matrix, an empty MatrixTransformer, no call made on either
InitObjects ==
  /\ grid = Matrix(1, 1, <<1>>)
  /\ tflags = <<>>
  /\ ret = NoRet

Init ==
  /\ InitTrainers
  /\ InitObjects
  /\ call \in Calls

SetTrainer(t, tr) ==
  /\ flags' = [flags EXCEPT ![t] = tr.flags]
  /\ xn' = [xn EXCEPT ![t] = tr.xn]
  /\ yn' = [yn EXCEPT ![t] = tr.yn]
  /\ sim' = [sim EXCEPT ![t] = tr.sim]

\* trainer 2 has not loaded yet
Unloaded(t) == sim[t].id = FreshTrainer.sim.id

Train(t, matrix) ==
  /\ ops[t] < MaxOps
  /\ Unloaded(2)
  /\ SetTrainer(t, TrainTrainer(Trainer(t), matrix))
  /\ ops' = [ops EXCEPT ![t] = @ + 1]
  /\ seen' = [seen EXCEPT ![t] =
                IF seen[t].pure
                THEN [pure |-> TRUE, x |-> seen[t].x \cup SeenX(matrix),
                      y |-> seen[t].y \cup SeenY(matrix),
                      cells |-> seen[t].cells \cup Range(matrix.elements)]
                ELSE NotSeen]
  /\ out' = NoOut
  /\ UNCHANGED <<DefSubAliasCache, call, grid, tflags, ret>>

Ally(t, aliases) ==
  /\ ops[t] < MaxOps
  /\ Unloaded(2)
  /\ SetTrainer(t, AllyTrainer(Trainer(t), aliases))
  /\ ops' = [ops EXCEPT ![t] = @ + 1]
  /\ seen' = [seen EXCEPT ![t] = NotSeen]
  /\ out' = NoOut
  /\ UNCHANGED <<DefSubAliasCache, call, grid, tflags, ret>>

Load(t, dataset) ==
  /\ ops[t] < MaxOps
  /\ Unloaded(2)
  /\ SetTrainer(t, LoadTrainer(Trainer(t), dataset))
  /\ ops' = [ops EXCEPT ![t] = @ + 1]
  /\ seen' = [seen EXCEPT ![t] = NotSeen]
  /\ out' = NoOut
  /\ UNCHANGED <<DefSubAliasCache, call, grid, tflags, ret>>

\* a second, newly constructed trainer loads the dataset of trainer 1
LoadCopy ==
  /\ Unloaded(2)
  /\ SetTrainer(2, LoadTrainer(Trainer(2), Dataset(Trainer(1))))
  /\ ops' = [ops EXCEPT ![2] = @ + 1]
  /\ seen' = [seen EXCEPT ![2] = NotSeen]
  /\ UNCHANGED <<DefSubAliasCache, call, out, grid, tflags, ret>>

\* the call returns: the answer is kept and the persistent cache updated
GenerateReturn(t, useCache, mode, ans) ==
  /\ DefSubAliasCache' = [DefSubAliasCache EXCEPT ![t] = ans.defCache]
  /\ out' = [t |-> t, row |-> call[1][1], col |-> call[1][2], seed |-> call[2],
             useCache |-> useCache, mode |-> mode,
             err |-> ans.err, score |-> ans.score, size |-> ans.size,
             flagMat |-> ans.flagMat, result |-> ans.result, cells |-> ans.cells,
             cacheBefore |-> DefSubAliasCache[t], before |-> Trainer(t)]
  /\ SetTrainer(t, ans.trainer)
  /\ UNCHANGED <<ops, seen, call, grid, tflags, ret>>

GenerateCall(t, useCache, mode) ==
  GenerateReturn(t, useCache, mode,
                 Generate(Trainer(t), DefSubAliasCache[t], call[1][1], call[1][2], Ambient,
                          call[2], useCache, mode))

Next ==
  \/ \E matrix \in TrainGrids : Train(1, matrix)
  \/ \E aliases \in AllyInputs : Ally(1, aliases)
  \/ \E dataset \in LoadDatasets : Load(1, dataset)
  \/ \E o \in Options : GenerateCall(1, o[1], o[2])

Spec == Init /\ [][Next]_vars

\* the behaviours with the second trainer
InitPair ==
  /\ InitTrainers
  /\ InitObjects
  /\ call \in PairCalls

NextPair ==
  \/ Next
  \/ LoadCopy
  \/ ~Unloaded(2) /\ GenerateCall(2, TRUE, "quality")

SpecPair == InitPair /\ [][NextPair]_vars

(***************************************************************************)
(* The Matrix calls.  The elements are numbers, so that Add and Sub apply. *)
(***************************************************************************)
\* <<row, col, elements>> handed to the constructor
NewInputs ==
  {<<2, 3, <<1, 2, 3, 4, 5, 6>>>>, <<2, 3, <<1, 2, 3, 4, 5>>>>, <<3, 2, <<1, 2, 3, 4, 5, 6>>>>,
   <<2, 2, <<1, 2, 3, 4>>>>, <<2, 2, <<1, 2, 3, 4, 5>>>>, <<1, 1, <<1>>>>, <<2, 1, <<1, 2>>>>}

\* the second operand of Add and Sub
Operands ==
  {Matrix(2, 3, <<10, 20, 30, 40, 50, 60>>), Matrix(3, 2, <<10, 20, 30, 40, 50, 60>>),
   Matrix(2, 2, <<10, 20, 30, 40>>), Matrix(2, 1, <<10, 20>>), Matrix(1, 1, <<10>>)}

\* <<rowIndex, colIndex>> of getElement and setElement
Coords == (-1..3) \X (-1..3)

\* <<rowIndex, colIndex>> setElement is called with
SetCoords == {<<0, 0>>, <<1, 1>>, <<1, 2>>, <<2, 0>>, <<-1, 0>>, <<0, 3>>, <<2, 2>>}

Offsets == -1..6

\* the centres and the sizes GetLocalMatrix is called with
Centres == {<<0, 0>>, <<1, 1>>, <<1, 2>>, <<-1, 3>>}

Sizes == {-1, 0, 1, 2, 3}

\* new Matrix(row, col, elements)
New(row, col, elements) ==
  /\ IF MatrixOk(row, col, elements)
     THEN /\ grid' = Matrix(row, col, elements)
          /\ ret' = [op |-> "new", err |-> "none", row |-> row, col |-> col,
                     length |-> Len(elements)]
     ELSE /\ grid' = grid
          /\ ret' = [op |-> "new", err |-> "SizeMismatch", row |-> row, col |-> col,
                     length |-> Len(elements)]
  /\ UNCHANGED <<tvars, tflags>>

\* grid.setElement(rowIndex, colIndex, element)
SetElementCall(rowIndex, colIndex, element) ==
  /\ IF GetIndexOk(grid, rowIndex, colIndex)
     THEN /\ grid' = SetElement(grid, rowIndex, colIndex, element)
          /\ ret' = [op |-> "setElement", err |-> "none", rowIndex |-> rowIndex,
                     colIndex |-> colIndex, before |-> grid]
     ELSE /\ grid' = grid
          /\ ret' = [op |-> "setElement", err |-> "IndexOutOfRange", rowIndex |-> rowIndex,
                     colIndex |-> colIndex, before |-> grid]
  /\ UNCHANGED <<tvars, tflags>>

\* grid.clear(fill)
ClearCall(fill) ==
  /\ grid' = Clear(grid, fill)
  /\ ret' = [op |-> "clear", err |-> "none"]
  /\ UNCHANGED <<tvars, tflags>>

\* grid.getElement(rowIndex, colIndex)
GetElementCall(rowIndex, colIndex) ==
  /\ ret' = IF GetElementOk(grid, rowIndex, colIndex)
            THEN [op |-> "getElement", err |-> "none", rowIndex |-> rowIndex,
                  colIndex |-> colIndex, result |-> GetElement(grid, rowIndex, colIndex)]
            ELSE [op |-> "getElement", err |-> "IndexOutOfRange", rowIndex |-> rowIndex,
                  colIndex |-> colIndex]
  /\ UNCHANGED <<tvars, tflags, grid>>

\* grid.getRowIndex(elOffset)
GetRowIndexCall(elOffset) ==
  /\ ret' = IF GetRowIndexOk(grid, elOffset)
            THEN [op |-> "getRowIndex", err |-> "none", elOffset |-> elOffset,
                  result |-> GetRowIndex(grid, elOffset)]
            ELSE [op |-> "getRowIndex", err |-> "IndexOutOfRange", elOffset |-> elOffset]
  /\ UNCHANGED <<tvars, tflags, grid>>

\* grid.getColIndex(elOffset)
GetColIndexCall(elOffset) ==
  /\ ret' = IF GetColIndexOk(grid, elOffset)
            THEN [op |-> "getColIndex", err |-> "none", elOffset |-> elOffset,
                  result |-> GetColIndex(grid, elOffset)]
            ELSE [op |-> "getColIndex", err |-> "IndexOutOfRange", elOffset |-> elOffset]
  /\ UNCHANGED <<tvars, tflags, grid>>

\* Matrix.Add(grid, b)
AddCall(b) ==
  /\ ret' = IF SizeMatch(grid, b)
            THEN [op |-> "Add", err |-> "none", b |-> b, result |-> Add(grid, b)]
            ELSE [op |-> "Add", err |-> "SizeNotMatch", b |-> b]
  /\ UNCHANGED <<tvars, tflags, grid>>

\* Matrix.Sub(grid, b)
SubCall(b) ==
  /\ ret' = IF SizeMatch(grid, b)
            THEN [op |-> "Sub", err |-> "none", b |-> b, result |-> Sub(grid, b)]
            ELSE [op |-> "Sub", err |-> "SizeNotMatch", b |-> b]
  /\ UNCHANGED <<tvars, tflags, grid>>

\* Matrix.GetLocalMatrix(grid, rowIndex, colIndex, row, col, fill)
GetLocalMatrixCall(rowIndex, colIndex, row, col, fill) ==
  /\ ret' = IF LocalSizeOk(row, col)
            THEN [op |-> "GetLocalMatrix", err |-> "none", rowIndex |-> rowIndex,
                  colIndex |-> colIndex, row |-> row, col |-> col, fill |-> fill,
                  source |-> grid, result |-> GetLocalMatrix(grid, rowIndex, colIndex, row, col, fill)]
            ELSE [op |-> "GetLocalMatrix", err |-> "InvalidWindowSize", rowIndex |-> rowIndex,
                  colIndex |-> colIndex, row |-> row, col |-> col, fill |-> fill,
                  source |-> grid]
  /\ grid' = grid
  /\ UNCHANGED <<tvars, tflags>>

InitMatrix ==
  /\ InitTrainers
  /\ InitObjects
  /\ call = <<<<1, 1>>, 1>>

NextMatrix ==
  \/ \E n \in NewInputs : New(n[1], n[2], n[3])
  \/ \E rc \in SetCoords : SetElementCall(rc[1], rc[2], 9)
  \/ ClearCall(0)
  \/ \E rc \in Coords : GetElementCall(rc[1], rc[2])
  \/ \E elOffset \in Offsets : GetRowIndexCall(elOffset)
  \/ \E elOffset \in Offsets : GetColIndexCall(elOffset)
  \/ \E b \in Operands : AddCall(b)
  \/ \E b \in Operands : SubCall(b)
  \/ \E rc \in Centres : \E row \in Sizes : \E col \in Sizes :
       GetLocalMatrixCall(rc[1], rc[2], row, col, 0)

SpecMatrix == InitMatrix /\ [][NextMatrix]_vars

(***************************************************************************)
(* The MatrixTransformer calls.  The keys are the elements of the grids.   *)
(***************************************************************************)
\* the matrices embedding is called with
EmbedGrids ==
  {GridABCD, GridABCACB, GridB, Matrix(1, 2, <<"C", "A">>), Matrix(2, 1, <<"D", "D">>)}

\* flag matrices restore is called with, besides those embedding returned
RestoreGrids == {Matrix(1, 3, <<1, 0, 5>>), Matrix(2, 2, <<2, 1, 4, 3>>)}

NoGrid == Matrix(0, 0, <<>>)

\* transformer.embedding(matrix)
EmbeddingReturn(matrix, e) ==
  /\ tflags' = e.flags
  /\ ret' = [op |-> "embedding", matrix |-> matrix, result |-> e.mat, before |-> tflags]
  /\ UNCHANGED <<tvars, grid>>

EmbeddingCall(matrix) == EmbeddingReturn(matrix, Embedding(tflags, matrix))

\* transformer.restore(matrix, nonExistsFill); embedded is the matrix whose
\* embedding the argument is, when the call before returned it.  matrix is
\* the argument as it was passed and input the argument when the call has
\* returned: new Matrix(row, col, elements) keeps the array it is given, so
\* mat.elements is the argument's own array and every write lands in it
RestoreCall(matrix, nonExistsFill) ==
  /\ ret' = [op |-> "restore", matrix |-> matrix, fill |-> nonExistsFill,
             result |-> Restore(tflags, matrix, nonExistsFill),
             input |-> Matrix(matrix.row, matrix.col,
                              Restore(tflags, matrix, nonExistsFill).elements),
             embedded |-> IF ret.op = "embedding" /\ ret.result = matrix
                          THEN ret.matrix ELSE NoGrid]
  /\ UNCHANGED <<tvars, grid, tflags>>

\* the matrix the last call returned, if it was an embedding call
Embedded == IF ret.op = "embedding" THEN {ret.result} ELSE {}

NextTransformer ==
  \/ \E matrix \in EmbedGrids : EmbeddingCall(matrix)
  \/ \E matrix \in RestoreGrids \cup Embedded : RestoreCall(matrix, Ambient)

SpecTransformer == InitMatrix /\ [][NextTransformer]_vars

(***************************************************************************)
(* Vocabulary of the properties.                                           *)
(***************************************************************************)
\* a generate call has been answered since the last train / ally / load
Called == out.t # 0

\* the elements trainer t has a flag for
Registered(t) == {flags[t][i][1] : i \in 1..Len(flags[t])}

\* every list memoized in cache for a relationship of trainer t is the list
\* nextAliases returns now
CacheCurrent(cache, t) ==
  \A k \in DOMAIN cache :
    /\ k[1] = xn[t].id => cache[k] = NextAliases(Trainer(t), xn[t], k[2])
    /\ k[1] = yn[t].id => cache[k] = NextAliases(Trainer(t), yn[t], k[2])

\* trainer t was constructed and then trained on the grid [[A,B],[C,D]] only
OnlyABCD(t) ==
  /\ seen[t].pure
  /\ ops[t] = 1
  /\ seen[t].x = SeenX(GridABCD)
  /\ seen[t].y = SeenY(GridABCD)

\* a full row x col grid of flags of trainer t exists in which every cell
\* is an expanded x-neighbour of its left cell and an expanded y-neighbour
\* of its top cell
TilingExists(t, row, col) ==
  LET tr == Trainer(t)
      known == {tr.flags[i][2] : i \in 1..Len(tr.flags)}
  IN \E g \in [1..(row * col) -> known] :
       \A i \in 0..(row * col - 1) :
         /\ i % col > 0 => Includes(NextAliases(tr, tr.xn, g[i]), g[i + 1])
         /\ i >= col => Includes(NextAliases(tr, tr.yn, g[i + 1 - col]), g[i + 1])

\* trainers t and u hold the same flag table and the same x, y and alias edges
SameTrained(t, u) ==
  /\ flags[t] = flags[u]
  /\ xn[t].relations = xn[u].relations
  /\ yn[t].relations = yn[u].relations
  /\ sim[t].relations = sim[u].relations

\* what trainer u returns for the arguments of the last generate call
Answer(u) ==
  Generate(Trainer(u), DefSubAliasCache[u], out.row, out.col, Ambient, out.seed,
           out.useCache, out.mode)

\* the trainer of the pair that is not t
Other(t) == IF t = 1 THEN 2 ELSE 1

(***************************************************************************)
(* Properties.                                                             *)
(***************************************************************************)

\* C10: after any sequence of train calls on a newly constructed trainer,
\* the registered elements are the elements shown, nextElements(xn, f) holds
\* exactly the flags seen immediately to the right of f and
\* nextElements(yn, f) exactly the flags seen immediately below f, so a
\* row's last cell gets no edge to the next row's first cell; for the
\* single grid [[A,B],[C,D]], nextElements(xn, flag(A)) = [flag(B)] and
\* nextElements(yn, flag(A)) = [flag(C)].
C10_TrainRecordsAdjacency ==
  seen[1].pure =>
    LET tr == Trainer(1)
        f(e) == GetFlag(tr.flags, e)
    IN /\ Registered(1) = seen[1].cells
       /\ \A a \in seen[1].cells :
            /\ Range(NextElements(tr.xn, f(a))) = {f(p[2]) : p \in {q \in seen[1].x : q[1] = a}}
            /\ Range(NextElements(tr.yn, f(a))) = {f(p[2]) : p \in {q \in seen[1].y : q[1] = a}}
       /\ OnlyABCD(1) =>
            /\ NextElements(tr.xn, f("A")) = <<f("B")>>
            /\ NextElements(tr.yn, f("A")) = <<f("C")>>
            /\ NextElements(tr.xn, f("B")) = <<>>

\* both grids were trained, one after the other
C10_Witness ==
  /\ seen[1].pure
  /\ ops[1] = 2
  /\ seen[1].cells = {"A", "B", "C", "D"}
  /\ <<"C", "B">> \in seen[1].x
  /\ <<"A", "C">> \in seen[1].y

\* C9: generate with mode quality or fill raises no error (no index out of
\* range from reading the top, left or top-right cell), returns a grid of
\* exactly row * col cells and a score between 0 and 1.
C9_ValidModeNeverFails ==
  (Called /\ out.mode \in {"quality", "fill"}) =>
    /\ out.err = "none"
    /\ Len(out.result) = out.row * out.col
    /\ 0 <= out.score
    /\ out.score <= out.size

\* a 2 x 3 grid generated in full: the cells of the second row read their
\* top, left and top-right cells
C9_Witness ==
  /\ Called
  /\ out.mode = "quality"
  /\ out.row = 2
  /\ out.col = 3
  /\ out.err = "none"
  /\ out.score = out.size

\* C8: generate with a mode other than quality and fill fails with
\* "Unknown mode", whatever the trained state, the size and the seed.
C8_UnknownModeRejected ==
  (Called /\ out.mode \notin {"quality", "fill"}) => out.err = "UnknownMode"

\* C7: in fill mode, for a trainer with at least one flag, generate visits
\* every cell, returns score 1 and a grid whose every cell holds a
\* registered element.
C7_FillNeverAborts ==
  (Called /\ out.mode = "fill" /\ flags[out.t] # <<>>) =>
    /\ out.err = "none"
    /\ out.score = out.size
    /\ Len(out.cells) = out.size
    /\ \A i \in 1..Len(out.cells) :
         GetIndex(Matrix(out.row, out.col, out.result), out.cells[i].row, out.cells[i].col) = i - 1
    /\ \A i \in 1..Len(out.result) : out.result[i] \in Registered(out.t)

\* the trainer knows one flag and no adjacency; every cell was sampled
C7_Witness ==
  /\ Called
  /\ out.mode = "fill"
  /\ Len(flags[out.t]) = 1
  /\ xn[out.t].relations = <<>>
  /\ yn[out.t].relations = <<>>
  /\ out.size >= 4
  /\ Len(out.cells) = out.size
  /\ \A i \in 1..Len(out.cells) : out.cells[i].forced

\* C6: in quality mode, if cell k (row-major offset) is the first cell at
\* which no candidate is accepted, generation stops there, the score is
\* k / (row * col), cells 0..k-1 of the result hold registered elements and
\* every cell from k on holds the ambient fill; if no cell fails, the score
\* is 1.
C6_QualityAbort ==
  (Called /\ out.mode = "quality" /\ out.err = "none") =>
    LET failing == {k \in 0..(Len(out.cells) - 1) : Falsy(out.cells[k + 1].element)}
    IN /\ failing = {} => (out.score = out.size /\ Len(out.cells) = out.size)
       /\ \A k \in failing :
            /\ Len(out.cells) = k + 1
            /\ out.score = k
            /\ \A j \in 1..k : out.result[j] \in Registered(out.t)
            /\ \A j \in (k + 1)..out.size : out.result[j] = Ambient

\* a call that placed some cells and then met a cell without a candidate
C6_Witness ==
  /\ Called
  /\ out.mode = "quality"
  /\ out.err = "none"
  /\ 0 < out.score
  /\ out.score < out.size

\* C5: in the flag matrix of a quality-mode call, whatever the trained
\* state, size, seed and cache setting, every placed cell with a left
\* neighbour holds a flag of nextAliases(xn, left flag), every placed cell
\* with a top neighbour holds a flag of nextAliases(yn, top flag), both over
\* the trainer's current relations, and every placed flag is registered.
C5_AdjacencyConsistent ==
  (Called /\ out.mode = "quality" /\ out.err = "none") =>
    LET tr == Trainer(out.t)
        mat == Matrix(out.row, out.col, out.flagMat)
    IN \A i \in 0..(out.size - 1) :
         LET r == GetRowIndex(mat, i)
             c == GetColIndex(mat, i)
             v == GetElement(mat, r, c)
         IN v # 0 =>
              /\ HasKey(tr.flags, v)
              /\ c > 0 => Includes(NextAliases(tr, tr.xn, GetElement(mat, r, c - 1)), v)
              /\ r > 0 => Includes(NextAliases(tr, tr.yn, GetElement(mat, r - 1, c)), v)

\* a full grid generated from a persistent cache that holds lists memoized
\* before the last train or ally call
C5_Witness ==
  /\ Called
  /\ out.mode = "quality"
  /\ out.useCache
  /\ ~CacheCurrent(out.cacheBefore, out.t)
  /\ out.size >= 4
  /\ out.score = out.size

\* C4: at every cell the flag placed by the scan is the first candidate, in
\* the order of the shuffled pool, that passes all checks.
C4_FirstPassingPlaced ==
  Called =>
    \A i \in 1..Len(out.cells) :
      (~out.cells[i].forced /\ out.cells[i].passed # <<>>) =>
        out.cells[i].element = Head(out.cells[i].passed)

\* C3, as the specification states it: in quality mode the score is 1
\* whenever a full tiling consistent with the trained adjacency exists; after
\* training on [[A,B],[C,D]] only, generate(2, 2) in quality mode returns
\* score 1 and a grid using only A, B, C, D.
C3_QualityComplete ==
  (Called /\ out.mode = "quality" /\ out.err = "none") =>
    /\ TilingExists(out.t, out.row, out.col) => out.score = out.size
    /\ (OnlyABCD(out.t) /\ out.row = 2 /\ out.col = 2) =>
         /\ out.score = out.size
         /\ \A i \in 1..Len(out.result) : out.result[i] \in {"A", "B", "C", "D"}

\* C3, amended: in quality mode the score is 1 only if every placed flag has
\* a non-empty expanded x-neighbour list and a non-empty expanded
\* y-neighbour list; after training on [[A,B],[C,D]] only, at most one cell
\* is placed (so generate(2, 2) scores at most 1/4) and the grid holds only
\* A and the ambient fill.
C3_CompleteNeedsViableFlags ==
  (Called /\ out.mode = "quality" /\ out.err = "none") =>
    LET tr == Trainer(out.t)
    IN /\ out.score = out.size =>
            \A i \in 1..out.size :
              /\ out.flagMat[i] # 0
              /\ NextAliases(tr, tr.xn, out.flagMat[i]) # <<>>
              /\ NextAliases(tr, tr.yn, out.flagMat[i]) # <<>>
       /\ OnlyABCD(out.t) =>
            /\ out.score <= 1
            /\ (out.row = 2 /\ out.col = 2) => 4 * out.score <= out.size
            /\ \A i \in 1..Len(out.result) : out.result[i] \in {"A", Ambient}

\* the trainer saw only [[A,B],[C,D]], that grid is a consistent 2 x 2
\* tiling, and generate(2, 2) in quality mode scored less than 1
C3_Witness ==
  /\ Called
  /\ OnlyABCD(out.t)
  /\ out.mode = "quality"
  /\ out.row = 2
  /\ out.col = 2
  /\ TilingExists(out.t, 2, 2)
  /\ out.score < out.size

\* C2: once a newly constructed trainer has loaded the dataset of trainer
\* T, it answers every query as T does: nextElements and nextAliases agree
\* for every flag on both relations, and generate with the same row, col,
\* ambient, seed and options returns the same grid and score as T.
C2_DatasetRoundTrip ==
  ~Unloaded(2) =>
    LET t1 == Trainer(1)
        t2 == Trainer(2)
    IN /\ t1.flags = t2.flags
       /\ \A f \in 0..(Len(t1.flags) + 1) :
            /\ NextElements(t1.xn, f) = NextElements(t2.xn, f)
            /\ NextElements(t1.yn, f) = NextElements(t2.yn, f)
            /\ NextAliases(t1, t1.xn, f) = NextAliases(t2, t2.xn, f)
            /\ NextAliases(t1, t1.yn, f) = NextAliases(t2, t2.yn, f)
       /\ Called =>
            LET a == Answer(Other(out.t))
            IN a.err = out.err /\ a.result = out.result /\ a.score = out.score

\* C1: two trainers whose flag tables and x, y and alias edges are equal,
\* whatever calls each has received before, return the same grid and the
\* same score from generate with the same row, col, ambient, seed and
\* options.
C1_GenerateDeterministic ==
  (Called /\ SameTrained(1, 2)) =>
    LET a == Answer(Other(out.t))
    IN a.result = out.result /\ a.score = out.score /\ a.err = out.err

\* C11: ally makes aliases symmetric: after ally(groups), for every group
\* (rep, similar) and every s in similar, flag(s) is in aliases(flag(rep))
\* and flag(rep) is in aliases(flag(s)), whether or not the input also lists
\* the reverse group.
C11_AllySymmetric ==
  [][\A aliases \in AllyInputs :
       Ally(1, aliases) =>
         \A i \in 1..Len(aliases) : \A j \in 1..Len(aliases[i][2]) :
           /\ Includes(Aliases(Trainer(1), GetFlag(flags[1], aliases[i][1]))',
                       GetFlag(flags[1], aliases[i][2][j])')
           /\ Includes(Aliases(Trainer(1), GetFlag(flags[1], aliases[i][2][j]))',
                       GetFlag(flags[1], aliases[i][1])')]_vars

\* the flag table and every nextElements and nextAliases list, order
\* included, are the same in trainers a and b
SameQueries(a, b) ==
  /\ a.flags = b.flags
  /\ \A f \in 1..Len(a.flags) :
       /\ NextElements(a.xn, f) = NextElements(b.xn, f)
       /\ NextElements(a.yn, f) = NextElements(b.yn, f)
       /\ NextAliases(a, a.xn, f) = NextAliases(b, b.xn, f)
       /\ NextAliases(a, a.yn, f) = NextAliases(b, b.yn, f)

\* every aliases list names the same flags, in the same order of first
\* occurrence, in trainers a and b
SameAliases(a, b) ==
  /\ a.flags = b.flags
  /\ \A f \in 1..Len(a.flags) : Uniq(Aliases(a, f)) = Uniq(Aliases(b, f))

TrainAgainSame(once, matrix) == SameQueries(once, TrainTrainer(once, matrix))

AllyAgainSame(once, aliases) ==
  /\ SameAliases(once, AllyTrainer(once, aliases))
  /\ SameQueries(once, AllyTrainer(once, aliases))

TrainOrAlly ==
  \/ \E matrix \in TrainGrids : Train(1, matrix)
  \/ \E aliases \in AllyInputs : Ally(1, aliases)

\* every member of the stored list of node in rel is still a member after
\* the step
KeepsMembers(rel, node) == Range(RelGet(rel, node)) \subseteq Range(RelGet(rel, node))'

\* C13: across every train and every ally call on one trainer, an element
\* that has a flag keeps that flag, the flag table only gains entries, and
\* for every flag the stored neighbours in the x graph, the y graph and the
\* alias graph only gain members.
C13_MonotonicGrowth ==
  [][TrainOrAlly =>
       /\ Registered(1) \subseteq Registered(1)'
       /\ \A e \in Registered(1) : GetFlag(flags[1], e)' = GetFlag(flags[1], e)
       /\ Len(flags[1]) <= Len(flags[1])'
       /\ \A f \in 1..Len(flags[1]) :
            /\ KeepsMembers(xn[1], f)
            /\ KeepsMembers(yn[1], f)
            /\ KeepsMembers(sim[1], f)
            /\ Range(NextElements(xn[1], f)) \subseteq Range(NextElements(xn[1], f))'
            /\ Range(NextElements(yn[1], f)) \subseteq Range(NextElements(yn[1], f))'
            /\ Range(Aliases(Trainer(1), f)) \subseteq Range(Aliases(Trainer(1), f))']_vars

\* train([[A,B,C],[A,C,B]]) was followed by train([[A,B],[C,D]]): D was
\* registered after A, B and C, which kept their flags, and A, which had
\* B as its right neighbour, has it still
C13_Witness ==
  /\ seen[1].pure
  /\ ops[1] = 2
  /\ flags[1] = <<<<"A", 1>>, <<"B", 2>>, <<"C", 3>>, <<"D", 4>>>>
  /\ RelGet(xn[1], 1) = <<2, 3, 2>>
  /\ RelGet(yn[1], 1) = <<1, 3>>

\* the keys of the lists memoized for the relationship objects trainer t
\* holds now
CurrentKeys(t) ==
  {CacheKey(xn[t], f) : f \in 1..Len(flags[t])} \cup
  {CacheKey(yn[t], f) : f \in 1..Len(flags[t])}

\* the list nextAliases returns now for the pair that key k names
CurrentList(t, k) ==
  IF k[1] = xn[t].id THEN NextAliases(Trainer(t), xn[t], k[2])
  ELSE NextAliases(Trainer(t), yn[t], k[2])

\* keys k0 and k name the same flag in the same graph (x or y) of
\* relationship objects created by different load calls
SameGraphFlag(k0, k) == k0[2] = k[2] /\ k0[1] < k[1] /\ (k[1] - k0[1]) % 3 = 0

\* C14 as stated: after a generate call with useCache=true has memoized the
\* expanded neighbours of a flag, a later train, ally or load, each of the
\* three, is not reflected: the list the next generate with useCache=true
\* uses for the flag is the one memoized before.
C14_NeverReflected ==
  (Called /\ out.useCache) =>
    \A k \in CurrentKeys(out.t) \cap DOMAIN DefSubAliasCache[out.t] :
      /\ k \in DOMAIN out.cacheBefore =>
           DefSubAliasCache[out.t][k] = out.cacheBefore[k]
      /\ \A k0 \in DOMAIN out.cacheBefore :
           SameGraphFlag(k0, k) => DefSubAliasCache[out.t][k] = out.cacheBefore[k0]

\* C14: a generate call with useCache=true keeps every list memoized
\* before it, whatever train and ally calls came in between, and places
\* next to a flag only flags of the list memoized for it; what it memoizes
\* anew is memoized for the current relationship objects from the current
\* relations, so after a load, which creates new relationship objects, the
\* loaded relations are what the call sees.
C14_StaleUntilLoad ==
  (Called /\ out.useCache) =>
    /\ \A k \in DOMAIN out.cacheBefore :
         /\ k \in DOMAIN DefSubAliasCache[out.t]
         /\ DefSubAliasCache[out.t][k] = out.cacheBefore[k]
    /\ \A k \in DOMAIN DefSubAliasCache[out.t] \ DOMAIN out.cacheBefore :
         /\ k[1] \in {xn[out.t].id, yn[out.t].id}
         /\ DefSubAliasCache[out.t][k] = CurrentList(out.t, k)
    /\ (out.mode = "quality" /\ out.err = "none") =>
         \A i \in 1..(out.size - 1) :
           (i % out.col # 0 /\ out.flagMat[i] # 0 /\ out.flagMat[i + 1] # 0) =>
             Includes(DefSubAliasCache[out.t][CacheKey(xn[out.t], out.flagMat[i])],
                      out.flagMat[i + 1])

\* a call with useCache=true placed a flag to the right of a flag whose
\* memoized list is older than the last train or ally call and no longer
\* the list nextAliases returns
C14_Witness ==
  /\ Called
  /\ out.useCache
  /\ out.mode = "quality"
  /\ out.err = "none"
  /\ \E i \in 1..(out.size - 1) :
       /\ i % out.col # 0
       /\ out.flagMat[i] # 0
       /\ out.flagMat[i + 1] # 0
       /\ CacheKey(xn[out.t], out.flagMat[i]) \in DOMAIN out.cacheBefore
       /\ out.cacheBefore[CacheKey(xn[out.t], out.flagMat[i])] #
            NextAliases(Trainer(out.t), xn[out.t], out.flagMat[i])

\* grids a and b have the same row count and the same column count
SameShape(a, b) == a.row = b.row /\ a.col = b.col

\* C16: Add and Sub succeed, returning a grid of the common shape, exactly
\* when both grids have the same row count and the same column count, and
\* fail with SizeNotMatch exactly when the shapes differ.
C16_AddSubSameShape ==
  (ret.op \in {"Add", "Sub"}) =>
    /\ (ret.err = "none") <=> SameShape(grid, ret.b)
    /\ (ret.err = "SizeNotMatch") <=> ~SameShape(grid, ret.b)
    /\ (ret.err = "none") => SameShape(ret.result, grid)

\* (rowIndex, colIndex) is a cell of m
Inside(m, rowIndex, colIndex) ==
  /\ 0 <= rowIndex /\ rowIndex < m.row
  /\ 0 <= colIndex /\ colIndex < m.col

\* C17: for every grid with rows, cols >= 1 and every flat index i in
\* [0, rows*cols), getIndex(getRowIndex(i), getColIndex(i)) = i and
\* getElement(getRowIndex(i), getColIndex(i)) = elements[i]; getRowIndex,
\* getColIndex, getElement and setElement fail with IndexOutOfRange exactly
\* for an index or coordinate outside the grid, and a failed setElement
\* leaves the grid unchanged.
C17_IndexRoundTrip ==
  /\ \A i \in 0..(grid.row * grid.col - 1) :
       /\ GetRowIndexOk(grid, i) /\ GetColIndexOk(grid, i)
       /\ GetIndexOk(grid, GetRowIndex(grid, i), GetColIndex(grid, i))
       /\ GetIndex(grid, GetRowIndex(grid, i), GetColIndex(grid, i)) = i
       /\ GetElementOk(grid, GetRowIndex(grid, i), GetColIndex(grid, i))
       /\ GetElement(grid, GetRowIndex(grid, i), GetColIndex(grid, i)) = grid.elements[i + 1]
  /\ (ret.op \in {"getRowIndex", "getColIndex"}) =>
       /\ ret.err \in {"none", "IndexOutOfRange"}
       /\ (ret.err = "IndexOutOfRange") <=> ret.elOffset \notin 0..(grid.row * grid.col - 1)
  /\ (ret.op = "getRowIndex" /\ ret.err = "none") =>
       (ret.result \in 0..(grid.row - 1)
          /\ ret.elOffset - ret.result * grid.col \in 0..(grid.col - 1))
  /\ (ret.op = "getColIndex" /\ ret.err = "none") =>
       (ret.result \in 0..(grid.col - 1) /\ (ret.elOffset - ret.result) % grid.col = 0)
  /\ (ret.op = "getElement") =>
       /\ ret.err \in {"none", "IndexOutOfRange"}
       /\ (ret.err = "IndexOutOfRange") <=> ~Inside(grid, ret.rowIndex, ret.colIndex)
       /\ (ret.err = "none") =>
            ret.result = grid.elements[ret.rowIndex * grid.col + ret.colIndex + 1]
  /\ (ret.op = "setElement") =>
       /\ ret.err \in {"none", "IndexOutOfRange"}
       /\ (ret.err = "IndexOutOfRange") <=> ~Inside(ret.before, ret.rowIndex, ret.colIndex)
       /\ (ret.err = "IndexOutOfRange") => grid = ret.before

\* setElement was called on a 2 x 3 grid, whose last cell an earlier call
\* had set, with a column index one past the last column, and failed
C17_Witness ==
  /\ ret.op = "setElement"
  /\ ret.err = "IndexOutOfRange"
  /\ grid.row = 2 /\ grid.col = 3
  /\ ret.rowIndex = 0 /\ ret.colIndex = 3
  /\ grid.elements[6] = 9

\* C18: constructing a grid succeeds exactly when the number of elements
\* equals rows*cols and fails with SizeMismatch otherwise (2x3 with 6
\* elements succeeds, 2x3 with 5 fails), and after any sequence of
\* setElement and clear calls the element count still equals rows*cols.
C18_SizeInvariant ==
  /\ Len(grid.elements) = grid.row * grid.col
  /\ (ret.op = "new") =>
       /\ ret.err \in {"none", "SizeMismatch"}
       /\ (ret.err = "none") <=> ret.length = ret.row * ret.col
       /\ (ret.row = 2 /\ ret.col = 3 /\ ret.length = 6) => ret.err = "none"
       /\ (ret.row = 2 /\ ret.col = 3 /\ ret.length = 5) => ret.err = "SizeMismatch"
       /\ (ret.err = "none") => (grid.row = ret.row /\ grid.col = ret.col)

\* a 2 x 3 grid was cleared and then had two of its cells set
C18_Witness ==
  /\ grid.row = 2 /\ grid.col = 3
  /\ ret.op = "setElement" /\ ret.err = "none"
  /\ grid.elements = <<9, 0, 0, 0, 0, 9>>

\* C19: for whole winRows, winCols, GetLocalMatrix fails with
\* InvalidWindowSize exactly when either is not a positive odd number;
\* otherwise it returns a winRows x winCols grid whose cell (y, x) is the
\* source's cell (r - (winRows-1)/2 + y, c - (winCols-1)/2 + x) when that
\* cell lies inside the source and fill otherwise, and it leaves the source
\* unchanged.
C19_LocalWindow ==
  (ret.op = "GetLocalMatrix") =>
    /\ grid = ret.source
    /\ ret.err \in {"none", "InvalidWindowSize"}
    /\ (ret.err = "InvalidWindowSize") <=>
         ~(ret.row > 0 /\ ret.row % 2 = 1 /\ ret.col > 0 /\ ret.col % 2 = 1)
    /\ (ret.err = "none") =>
         /\ ret.result.row = ret.row
         /\ ret.result.col = ret.col
         /\ Len(ret.result.elements) = ret.row * ret.col
         /\ \A y \in 0..(ret.row - 1) : \A x \in 0..(ret.col - 1) :
              ret.result.elements[y * ret.col + x + 1] =
                IF Inside(grid, ret.rowIndex - (ret.row - 1) \div 2 + y,
                          ret.colIndex - (ret.col - 1) \div 2 + x)
                THEN grid.elements[(ret.rowIndex - (ret.row - 1) \div 2 + y) * grid.col
                                     + (ret.colIndex - (ret.col - 1) \div 2 + x) + 1]
                ELSE ret.fill

\* a 3 x 3 window around the top-left cell of the 2 x 3 grid 1..6: its first
\* row and first column lie outside the source
C19_Witness ==
  /\ ret.op = "GetLocalMatrix"
  /\ ret.err = "none"
  /\ grid = Matrix(2, 3, <<1, 2, 3, 4, 5, 6>>)
  /\ ret.rowIndex = 0 /\ ret.colIndex = 0
  /\ ret.result = Matrix(3, 3, <<0, 0, 0, 0, 1, 2, 0, 4, 5>>)

\* the keys that have a flag in the table fl
Keys(fl) == {fl[i][1] : i \in 1..Len(fl)}

UsedList(rel, f) ==
  IF out.useCache THEN DefSubAliasCache[out.t][CacheKey(rel, f)]
  ELSE NextAliases(Trainer(out.t), rel, f)

\* the flag the last generate call had placed at (rowIndex, colIndex)
Placed(rowIndex, colIndex) == out.flagMat[rowIndex * out.col + colIndex + 1]

\* candidate sub for the cell (rowIndex, colIndex) is connected to the flags
\* placed to its left and above it, where the cell has both
TopLeftPasses(sub, rowIndex, colIndex) ==
  (rowIndex > 0 /\ colIndex > 0) =>
    /\ Includes(UsedList(xn[out.t], Placed(rowIndex, colIndex - 1)), sub)
    /\ Includes(UsedList(yn[out.t], Placed(rowIndex - 1, colIndex)), sub)

\* some flag that may stand below the flag placed at (rowIndex - 1,
\* colIndex + 1) is among the candidate's xAliases
LookaheadPasses(sub, rowIndex, colIndex) ==
  \E v \in Range(UsedList(yn[out.t], Placed(rowIndex - 1, colIndex + 1))) :
    Includes(UsedList(xn[out.t], sub), v)

\* the candidates of the cell that were scanned to the end of the loop body
ScannedFully(cell) ==
  SubSeq(cell.pool, 1, IF cell.cut THEN cell.scanned - 1 ELSE cell.scanned)

\* C20 as stated: the lookahead is applied exactly when row > 0 and
\* col + 2 < cols; a candidate that passed the checks before it is skipped
\* exactly when the lookahead is applied and no expanded neighbour in the y
\* graph of the flag at (row - 1, col + 1) is among its xAliases.
C20_LookaheadTwoAhead ==
  (Called /\ out.err = "none") =>
    \A n \in 1..Len(out.cells) :
      LET cell == out.cells[n]
      IN cell.passed =
           SelectSeq(ScannedFully(cell),
                     LAMBDA sub :
                       /\ TopLeftPasses(sub, cell.row, cell.col)
                       /\ (cell.row > 0 /\ cell.col + 2 < out.col) =>
                            LookaheadPasses(sub, cell.row, cell.col))

\* C20: the lookahead is applied exactly when row > 0 and col + 1 < cols,
\* that is when the cell (row - 1, col + 1) it reads exists; a candidate that
\* passed the checks before it is skipped exactly when the lookahead is
\* applied and no expanded neighbour in the y graph of the flag at
\* (row - 1, col + 1) is among its xAliases.
C20_LookaheadOneAhead ==
  (Called /\ out.err = "none") =>
    \A n \in 1..Len(out.cells) :
      LET cell == out.cells[n]
      IN cell.passed =
           SelectSeq(ScannedFully(cell),
                     LAMBDA sub :
                       /\ TopLeftPasses(sub, cell.row, cell.col)
                       /\ (cell.row > 0 /\ cell.col + 1 < out.col) =>
                            LookaheadPasses(sub, cell.row, cell.col))

\* in the column before the last one of a second row, a candidate connected
\* to the flags on its left and above it was skipped by the lookahead
C20_Witness ==
  /\ Called
  /\ out.err = "none"
  /\ \E n \in 1..Len(out.cells) :
       LET cell == out.cells[n]
       IN /\ cell.row > 0
          /\ cell.col + 2 = out.col
          /\ \E j \in 1..Len(ScannedFully(cell)) :
               /\ TopLeftPasses(cell.pool[j], cell.row, cell.col)
               /\ ~LookaheadPasses(cell.pool[j], cell.row, cell.col)
               /\ ~Includes(cell.passed, cell.pool[j])

\* the x and the y list the last generate call worked with for flag f are
\* both non-empty
ViableUsed(f) == UsedList(xn[out.t], f) # <<>> /\ UsedList(yn[out.t], f) # <<>>

\* C21 as stated: the scan of a cell ends at the first candidate whose
\* expanded neighbours in the x graph or in the y graph are empty, and that
\* candidate and every candidate after it in the order is never placed at
\* that cell, in either mode.
C21_CutNeverPlaced ==
  (Called /\ out.err = "none") =>
    \A n \in 1..Len(out.cells) :
      out.cells[n].cut =>
        \A j \in out.cells[n].scanned..Len(out.cells[n].pool) :
          out.cells[n].element # out.cells[n].pool[j]

\* C21: the scan of a cell ends at the first candidate whose expanded
\* neighbours in the x graph or in the y graph are empty; the scan accepts
\* neither that candidate nor a later one (fill mode may still force one of
\* them), so in quality mode every placed value has non-empty expanded
\* neighbours in both graphs.
C21_ScanCutOff ==
  (Called /\ out.err = "none") =>
    /\ \A n \in 1..Len(out.cells) :
         LET cell == out.cells[n]
         IN /\ \A j \in 1..Len(ScannedFully(cell)) : ViableUsed(cell.pool[j])
            /\ cell.cut => ~ViableUsed(cell.pool[cell.scanned])
            /\ ~cell.cut => cell.scanned = Len(cell.pool)
            /\ \A j \in 1..Len(cell.passed) : Includes(ScannedFully(cell), cell.passed[j])
            /\ ~cell.forced =>
                 (cell.element = Undefined \/ Includes(cell.passed, cell.element))
    /\ out.mode = "quality" =>
         \A i \in 1..out.size :
           out.flagMat[i] # 0 =>
             /\ NextAliases(Trainer(out.t), xn[out.t], out.flagMat[i]) # <<>>
             /\ NextAliases(Trainer(out.t), yn[out.t], out.flagMat[i]) # <<>>

\* a quality-mode call whose scan of a cell was ended by a candidate
\* without expansion after it had accepted an earlier one
C21_Witness ==
  /\ Called
  /\ out.err = "none"
  /\ out.mode = "quality"
  /\ \E n \in 1..Len(out.cells) :
       /\ out.cells[n].cut
       /\ out.cells[n].scanned < Len(out.cells[n].pool)
       /\ out.cells[n].passed # <<>>
       /\ out.flagMat[n] = out.cells[n].element

\* lists a and b hold the same values, each as often
SamePool(a, b) ==
  Len(a) = Len(b) /\ \A v \in Range(a) \cup Range(b) :
    Cardinality({i \in 1..Len(a) : a[i] = v}) = Cardinality({i \in 1..Len(b) : b[i] = v})

\* C22 as stated: at cell (0,0) the pool is the set of all known flags; at
\* column 0 of every row > 0 it is the expanded neighbours in the y graph
\* of the value at column 0 of the previous row; at every other cell it is
\* the expanded neighbours in the x graph of the value placed or forced at
\* the cell to the left, in both modes.
C22_CandidatePool ==
  (Called /\ out.err = "none") =>
    \A n \in 1..Len(out.cells) :
      LET cell == out.cells[n]
      IN SamePool(cell.pool,
           IF cell.col > 0
           THEN NextAliases(Trainer(out.t), xn[out.t], Placed(cell.row, cell.col - 1))
           ELSE IF cell.row > 0
           THEN NextAliases(Trainer(out.t), yn[out.t], Placed(cell.row - 1, 0))
           ELSE [i \in 1..Len(flags[out.t]) |-> i])

\* the flags reached from f by one step in rel from an alias of f, each
\* with its aliases
Expanded(tr, rel, f) ==
  UNION {Range(Aliases(tr, n)) :
           n \in UNION {Range(RelGet(rel, a)) : a \in Range(Aliases(tr, f))}}

\* C23: nextAliases(graph, f) is a duplicate-free list of exactly the
\* flags aliases(n), n a direct neighbour in graph of an alias a of f
\* (aliases(f) being f and the flags with an alias edge from f); it holds
\* every direct neighbour of f and is empty exactly when no alias of f has
\* a neighbour in graph.
C23_ExpandedNeighbors ==
  \A f \in 1..Len(flags[1]) : \A rel \in {xn[1], yn[1]} :
    /\ Range(NextAliases(Trainer(1), rel, f)) = Expanded(Trainer(1), rel, f)
    /\ Len(NextAliases(Trainer(1), rel, f)) = Cardinality(Expanded(Trainer(1), rel, f))
    /\ Range(Aliases(Trainer(1), f)) = {f} \cup Range(RelGet(sim[1], f))
    /\ Range(RelGet(rel, f)) \subseteq Range(NextAliases(Trainer(1), rel, f))
    /\ (NextAliases(Trainer(1), rel, f) = <<>>) <=>
         (\A a \in Range(Aliases(Trainer(1), f)) : RelGet(rel, a) = <<>>)

\* A has B as alias, stands above A in the trained grid, and B stands
\* above C: the expanded neighbours of A in the y graph are A, its only
\* direct neighbour, with A's alias B, and C, the neighbour of the alias B
C23_Witness ==
  /\ ops[1] = 2
  /\ RelGet(sim[1], 1) = <<2>>
  /\ NextElements(yn[1], 1) = <<1>>
  /\ NextElements(yn[1], 2) = <<3>>
  /\ NextAliases(Trainer(1), yn[1], 1) = <<1, 2, 3>>

\* answer a gives the error, the grid and the score of the last call
SameAnswer(a) == a.err = out.err /\ a.result = out.result /\ a.score = out.score

\* C24: a generate call with useCache=true that finds in the persistent
\* cache only lists memoized since the last train, ally or load returns the
\* grid and the score the same call with useCache=false returns, and no
\* generate call changes a list the persistent cache holds.
C24_CacheTransparent ==
  (Called /\ out.useCache) =>
    /\ CacheCurrent(out.cacheBefore, out.t) =>
         SameAnswer(Generate(Trainer(out.t), DefSubAliasCache[out.t], out.row, out.col,
                             Ambient, out.seed, FALSE, out.mode))
    /\ \A k \in DOMAIN out.cacheBefore :
         k \in DOMAIN DefSubAliasCache[out.t] /\ DefSubAliasCache[out.t][k] = out.cacheBefore[k]

\* a second call with useCache=true on a trained trainer: it filled a 2 x 3
\* grid from lists the call before it had memoized
C24_Witness ==
  /\ Called
  /\ out.useCache
  /\ out.err = "none"
  /\ out.size = 6
  /\ out.score = out.size
  /\ out.cacheBefore # <<>>
  /\ DOMAIN DefSubAliasCache[out.t] = DOMAIN out.cacheBefore
  /\ CacheCurrent(out.cacheBefore, out.t)

\* C25: generate only reads the trained state: whatever its arguments, and
\* also when it stops early in quality mode or throws for an unknown mode,
\* the flag table, the x graph, the y graph and the alias graph are, when it
\* returns, what they were when it was called.
C25_GenerateReadOnly ==
  Called => /\ Trainer(out.t) = out.before
            /\ Dataset(Trainer(out.t)) = Dataset(out.before)

\* a quality call on a trained trainer that stopped before the last cell
C25_Witness ==
  /\ Called
  /\ out.mode = "quality"
  /\ out.err = "none"
  /\ Len(flags[out.t]) = 4
  /\ out.score < out.size

\* the flags of table fl are 1..n for its n keys, one flag per key, and
\* getKey finds every key back from its flag
DenseBijection(fl) ==
  /\ \A i, j \in 1..Len(fl) : i # j => fl[i][1] # fl[j][1] /\ fl[i][2] # fl[j][2]
  /\ {fl[i][2] : i \in 1..Len(fl)} = 1..Len(fl)
  /\ \A i \in 1..Len(fl) :
       /\ HasKey(fl, GetFlag(fl, fl[i][1]))
       /\ GetKey(fl, GetFlag(fl, fl[i][1])) = fl[i][1]

\* C26: in a registry that started empty, after any train, ally and load of
\* a dataset such a registry produced, different elements have different
\* flags, the flags in use are exactly 1..n for the n registered elements (0
\* is never one of them), and getKey(getFlag(e)) = e for every registered e.
C26_DenseBijection == \A t \in Trainers : DenseBijection(flags[t])

\* trainer 1 registered four elements through train and ally, and trainer 2
\* loaded the dataset trainer 1 produced
C26_Witness ==
  /\ Len(flags[1]) = 4
  /\ ops[1] = 2
  /\ sim[1].relations # <<>>
  /\ flags[2] = flags[1]

\* C27: restore leaves its argument alone: when restore(M, fill) has
\* returned, every cell of M holds the flag it held when the call was made
\* (and the grid returned is another grid than M).
C27_RestoreKeepsInput ==
  ret.op = "restore" =>
    \A i \in 1..Len(ret.matrix.elements) :
      ToString(ret.input.elements[i]) = ToString(ret.matrix.elements[i])

====
